---------------------------- MODULE Spec2Model ----------------------------
(***************************************************************************)
(* A model of the image-to-ASCII converter component (AsciiConverter):     *)
(* the React state and refs of the component, its image loading handlers,  *)
(* its conversion effect, and the conversion pass convertToAscii with the  *)
(* IEEE-754 binary64 arithmetic that JavaScript numbers perform.           *)
(***************************************************************************)
EXTENDS Integers, Sequences, FiniteSets, TLC

(***************************************************************************)
(* Natural numbers of arbitrary size, as little-endian sequences of limbs  *)
(* in radix 2^15 without leading zero limbs (zero is the empty sequence).  *)
(* They carry the 53-bit significands of JavaScript numbers and the exact  *)
(* products, quotients and roots that are then rounded.                    *)
(***************************************************************************)
\* The({body : x \in {e}}) is body with x standing for the value of e, which
\* is computed once however often body uses x
The(S) == CHOOSE r \in S : TRUE

LimbBits == 15
Base == 2 ^ LimbBits

RECURSIVE Pow2(_)
Pow2(n) == IF n = 0 THEN 1 ELSE 2 * Pow2(n - 1)

RECURSIVE BigNorm(_)
BigNorm(a) ==
    IF a = <<>> THEN <<>>
    ELSE IF a[Len(a)] = 0 THEN BigNorm(SubSeq(a, 1, Len(a) - 1))
    ELSE a

RECURSIVE BigOfNat(_)
BigOfNat(n) == IF n = 0 THEN <<>> ELSE <<n % Base>> \o BigOfNat(n \div Base)

RECURSIVE BigToNat(_)
BigToNat(a) == IF a = <<>> THEN 0 ELSE a[1] + Base * BigToNat(Tail(a))

Limb(a, i) == IF i <= Len(a) THEN a[i] ELSE 0

RECURSIVE BigAddFrom(_, _, _, _)
BigAddFrom(a, b, i, c) ==
    IF i > Len(a) /\ i > Len(b)
    THEN IF c = 0 THEN <<>> ELSE <<c>>
    ELSE The({
             <<s % Base>> \o BigAddFrom(a, b, i + 1, s \div Base) : s \in {Limb(a, i) + Limb(b, i) + c}})

BigAdd(a, b) == BigAddFrom(a, b, 1, 0)

\* a - b, for a >= b
RECURSIVE BigSubFrom(_, _, _, _)
BigSubFrom(a, b, i, c) ==
    IF i > Len(a) THEN <<>>
    ELSE The({
             IF s < 0
             THEN <<s + Base>> \o BigSubFrom(a, b, i + 1, 1)
             ELSE <<s>> \o BigSubFrom(a, b, i + 1, 0) : s \in {Limb(a, i) - Limb(b, i) - c}})

BigSub(a, b) == BigNorm(BigSubFrom(a, b, 1, 0))

\* -1, 0 or 1 as a < b, a = b or a > b
RECURSIVE BigCmpFrom(_, _, _)
BigCmpFrom(a, b, i) ==
    IF i = 0 THEN 0
    ELSE IF a[i] < b[i] THEN -1
    ELSE IF a[i] > b[i] THEN 1
    ELSE BigCmpFrom(a, b, i - 1)

BigCmp(a, b) ==
    IF Len(a) < Len(b) THEN -1
    ELSE IF Len(a) > Len(b) THEN 1
    ELSE BigCmpFrom(a, b, Len(a))

\* a * k, for 0 <= k <= Base
RECURSIVE BigMulSmallFrom(_, _, _, _)
BigMulSmallFrom(a, k, i, c) ==
    IF i > Len(a)
    THEN IF c = 0 THEN <<>> ELSE <<c>>
    ELSE The({
             <<s % Base>> \o BigMulSmallFrom(a, k, i + 1, s \div Base) : s \in {a[i] * k + c}})

BigMulSmall(a, k) == IF k = 0 THEN <<>> ELSE BigMulSmallFrom(a, k, 1, 0)

BigShlLimbs(a, q) == IF a = <<>> THEN <<>> ELSE [i \in 1..q |-> 0] \o a

RECURSIVE BigMulFrom(_, _, _)
BigMulFrom(a, b, j) ==
    IF j > Len(b) THEN <<>>
    ELSE BigAdd(BigMulSmall(a, b[j]), BigShlLimbs(BigMulFrom(a, b, j + 1), 1))

BigMul(a, b) == BigMulFrom(a, b, 1)

\* quotient and remainder of a by k, for 0 < k <= Base
RECURSIVE BigDivSmallFrom(_, _, _, _)
BigDivSmallFrom(a, k, i, r) ==
    IF i = 0 THEN [q |-> <<>>, r |-> r]
    ELSE The({
         The({
             [q |-> rest.q \o <<cur \div k>>, r |-> rest.r] : rest \in {BigDivSmallFrom(a, k, i - 1, cur % k)}}) : cur \in {r * Base + a[i]}})

BigDivSmall(a, k) ==
    The({
        [q |-> BigNorm(d.q), r |-> d.r] : d \in {BigDivSmallFrom(a, k, Len(a), 0)}})

BigShl(a, n) == BigMulSmall(BigShlLimbs(a, n \div LimbBits), Pow2(n % LimbBits))

BigDropLimbs(a, q) == IF q >= Len(a) THEN <<>> ELSE SubSeq(a, q + 1, Len(a))

BigShr(a, n) == BigDivSmall(BigDropLimbs(a, n \div LimbBits), Pow2(n % LimbBits)).q

RECURSIVE NatBitLen(_)
NatBitLen(n) == IF n = 0 THEN 0 ELSE 1 + NatBitLen(n \div 2)

BigBitLen(a) == IF a = <<>> THEN 0 ELSE LimbBits * (Len(a) - 1) + NatBitLen(a[Len(a)])

BigIsOdd(a) == a # <<>> /\ a[1] % 2 = 1

\* the number of trailing zero bits of a, for a # 0
RECURSIVE NatTrailingZeros(_)
NatTrailingZeros(n) == IF n % 2 = 1 THEN 0 ELSE 1 + NatTrailingZeros(n \div 2)

RECURSIVE BigTrailingZeros(_)
BigTrailingZeros(a) ==
    IF a[1] = 0 THEN LimbBits + BigTrailingZeros(Tail(a))
    ELSE NatTrailingZeros(a[1])

\* the square root of n: the largest s with s * s <= n, and the remainder
\* r = n - s * s.  Bit i of s is set when the remainder allows it;
\* BigSqrtFrom settles the bits hi down to lo, the upper half of them first
BigSqrtBit(st, i) ==
    The({IF BigCmp(st.r, t) >= 0
         THEN [s |-> BigAdd(st.s, BigShl(<<1>>, i)), r |-> BigSub(st.r, t)]
         ELSE st
         : t \in {BigAdd(BigShl(st.s, i + 1), BigShl(<<1>>, 2 * i))}})

RECURSIVE BigSqrtFrom(_, _, _)
BigSqrtFrom(from, hi, lo) ==
    The({IF hi < lo THEN st
         ELSE IF hi = lo THEN BigSqrtBit(st, hi)
         ELSE BigSqrtFrom(BigSqrtFrom(st, hi, mid + 1), mid, lo)
         : st \in {from}, mid \in {(hi + lo) \div 2}})

BigSqrt(n) == BigSqrtFrom([s |-> <<>>, r |-> n], BigBitLen(n) \div 2, 0)

(***************************************************************************)
(* JavaScript numbers: IEEE-754 binary64 values.  A finite value is        *)
(* (-1)^neg * m * 2^e with m a 53-bit significand (2^52 <= m < 2^53), or   *)
(* zero (m = 0).  Every operation computes the exact result and rounds it  *)
(* to nearest, ties to even, as the language requires.  The values of the  *)
(* conversion lie between 2^-40 and 2^40, so subnormal numbers and         *)
(* overflow do not arise and are not represented.                          *)
(***************************************************************************)
SigBits == 53

FZero == [cls |-> "fin", neg |-> FALSE, m |-> <<>>, e |-> 0]
FInf(neg) == [cls |-> "inf", neg |-> neg, m |-> <<>>, e |-> 0]
FNaN == [cls |-> "nan", neg |-> FALSE, m |-> <<>>, e |-> 0]
FIsZero(x) == x.cls = "fin" /\ x.m = <<>>

\* the binary64 nearest to (-1)^neg * (M + s) * 2^E, where 0 < s < 1 if
\* sticky and s = 0 otherwise (sticky only with M of more than 54 bits)
FRound(neg, M, E, sticky) ==
    IF M = <<>> THEN FZero
    ELSE The({
             IF L <= SigBits
             THEN [cls |-> "fin", neg |-> neg,
                   m |-> BigShl(M, SigBits - L), e |-> E - (SigBits - L)]
             ELSE The({
                  The({
                  The({
                  The({
                  The({
                  The({
                  The({
                      IF BigBitLen(m1) > SigBits
                      THEN [cls |-> "fin", neg |-> neg,
                            m |-> BigShr(m1, 1), e |-> E + sh + 1]
                      ELSE [cls |-> "fin", neg |-> neg,
                            m |-> m1, e |-> E + sh] : m1 \in {IF up THEN BigAdd(q, <<1>>) ELSE q}}) : up \in {c > 0 \/ (c = 0 /\ (sticky \/ BigIsOdd(q)))}}) : c \in {BigCmp(rem, half)}}) : half \in {BigShl(<<1>>, sh - 1)}}) : rem \in {BigSub(M, BigShl(q, sh))}}) : q \in {BigShr(M, sh)}}) : sh \in {L - SigBits}}) : L \in {BigBitLen(M)}})

\* the number n, for an integer n of the model
FromInt(n) == IF n < 0 THEN FRound(TRUE, BigOfNat(-n), 0, FALSE)
              ELSE FRound(FALSE, BigOfNat(n), 0, FALSE)

FNeg(x) == IF x.cls = "nan" \/ FIsZero(x) THEN x ELSE [x EXCEPT !.neg = ~x.neg]

\* x * y
FMul(x, y) ==
    IF x.cls = "nan" \/ y.cls = "nan" THEN FNaN
    ELSE IF x.cls = "inf" \/ y.cls = "inf"
    THEN IF FIsZero(x) \/ FIsZero(y) THEN FNaN ELSE FInf(x.neg # y.neg)
    ELSE FRound(x.neg # y.neg, BigMul(x.m, y.m), x.e + y.e, FALSE)

\* x + y
FAdd(x, y) ==
    IF x.cls = "nan" \/ y.cls = "nan" THEN FNaN
    ELSE IF x.cls = "inf"
    THEN IF y.cls = "inf" /\ y.neg # x.neg THEN FNaN ELSE x
    ELSE IF y.cls = "inf" THEN y
    ELSE IF FIsZero(x) THEN y
    ELSE IF FIsZero(y) THEN x
    ELSE The({
         The({
         The({
             IF x.neg = y.neg THEN FRound(x.neg, BigAdd(mx, my), e, FALSE)
             ELSE IF BigCmp(mx, my) >= 0
             THEN FRound(x.neg, BigSub(mx, my), e, FALSE)
             ELSE FRound(y.neg, BigSub(my, mx), e, FALSE) : my \in {BigShl(y.m, y.e - e)}}) : mx \in {BigShl(x.m, x.e - e)}}) : e \in {IF x.e < y.e THEN x.e ELSE y.e}})

\* x - y
FSub(x, y) == FAdd(x, FNeg(y))

\* the bits a dividend is extended by before the division, and a radicand
\* before the root
GuardBits == 75
RootBits == 55

\* x / y; the odd part of a finite divisor's significand is below 2^15 (the
\* program divides by 255, by 0.5, by a ramp length less one, by a sample
\* count and, in its literals, by a power of ten)
FDiv(x, y) ==
    IF x.cls = "nan" \/ y.cls = "nan" THEN FNaN
    ELSE IF x.cls = "inf"
    THEN IF y.cls = "inf" THEN FNaN ELSE FInf(x.neg # y.neg)
    ELSE IF y.cls = "inf" THEN FZero
    ELSE IF FIsZero(y)
    THEN IF FIsZero(x) THEN FNaN ELSE FInf(x.neg # y.neg)
    ELSE IF FIsZero(x) THEN FZero
    ELSE The({
         The({
         The({
             FRound(x.neg # y.neg, qr.q, x.e - GuardBits - (y.e + t), qr.r # 0) : qr \in {BigDivSmall(BigShl(x.m, GuardBits), d)}}) : d \in {BigToNat(BigShr(y.m, t))}}) : t \in {BigTrailingZeros(y.m)}})

\* Math.sqrt(x); the root of the significand is taken to 54 bits or more
FSqrt(x) ==
    IF x.cls = "nan" THEN FNaN
    ELSE IF FIsZero(x) THEN x
    ELSE IF x.neg THEN FNaN
    ELSE IF x.cls = "inf" THEN x
    ELSE The({
         The({
             FRound(FALSE, sr.s, (x.e - s) \div 2, sr.r # <<>>) : sr \in {BigSqrt(BigShl(x.m, s))}}) : s \in {IF (x.e - RootBits) % 2 = 0 THEN RootBits ELSE RootBits + 1}})

\* a decimal literal n/d of the source (0.299 is 299/1000): the binary64
\* nearest to it
Literal(n, d) == FDiv(FromInt(n), FromInt(d))

\* Math.floor(x) of a finite x, as an integer of the model
FFloor(x) ==
    IF FIsZero(x) THEN 0
    ELSE IF x.e >= 0
    THEN The({IF x.neg THEN -v ELSE v : v \in {BigToNat(BigShl(x.m, x.e))}})
    ELSE The({
         The({
         The({
             IF ~x.neg THEN v ELSE IF exact THEN -v ELSE -v - 1 : exact \in {BigCmp(BigShl(q, -x.e), x.m) = 0}}) : v \in {BigToNat(q)}}) : q \in {BigShr(x.m, -x.e)}})

\* Math.ceil(x) of a finite x
FCeil(x) == -FFloor(FNeg(x))

\* Math.round(x) of a finite x: the integer nearest to x, halves upwards
FRoundInt(x) ==
    IF FIsZero(x) THEN 0
    ELSE (FFloor([x EXCEPT !.e = x.e + 1]) + 1) \div 2

\* x < y
FLess(x, y) ==
    IF x.cls = "nan" \/ y.cls = "nan" THEN FALSE
    ELSE IF x.cls = "inf" THEN x.neg /\ ~(y.cls = "inf" /\ y.neg)
    ELSE IF y.cls = "inf" THEN ~y.neg
    ELSE The({d.neg /\ ~FIsZero(d) : d \in {FSub(x, y)}})

\* Math.floor(x) and Math.ceil(x), as numbers
MathFloor(x) == IF x.cls = "fin" THEN FromInt(FFloor(x)) ELSE x
MathCeil(x) == IF x.cls = "fin" THEN FromInt(FCeil(x)) ELSE x

(***************************************************************************)
(* The character ramps.  A character is a string of one character; the    *)
(* block characters and the backquote are written by their code points     *)
(* ("U+2588", "U+0060").                                                   *)
(***************************************************************************)
charSets ==
    [standard |->
        <<" ", ".", ":", "-", "=", "+", "*", "#", "%", "@">>,
     detailed |->
        <<" ", ".", ",", ":", ";", "i", "1", "t", "f", "L", "C", "G", 
          "0", "8", "@">>,
     blocks |->
        <<" ", "U+2591", "U+2592", "U+2593", "U+2588">>,
     minimal |->
        <<" ", ".", ":", "U+2588">>,
     artistic |->
        <<" ", ".", "'", "U+0060", "^", "\"", ",", ":", ";", "I", "l", 
          "!", "i", ">", "<", "~", "+", "_", "-", "?", "]", "[", "}", 
          "{", "1", ")", "(", "|", "\\", "/", "t", "f", "j", "r", 
          "x", "n", "u", "v", "c", "z", "X", "Y", "U", "J", "C", "L", 
          "Q", "0", "O", "Z", "m", "w", "q", "p", "d", "b", "k", "h", 
          "a", "o", "*", "#", "M", "W", "&", "8", "%", "B", "@", "$">>,
     retro |->
        <<" ", ".", ":", ";", "+", "=", "x", "X", "$", "&", "@">>]

CharSetNames == DOMAIN charSets

(***************************************************************************)
(* One visited pixel (convertToAscii, the body of the inner loop).         *)
(***************************************************************************)
\* what indexing a string outside its length gives
Undefined == "undefined"

\* the brightness of the pixel (r, g, b)
Brightness(r, g, b, grayscale) ==
    IF grayscale
    THEN FDiv(FAdd(FAdd(FMul(FromInt(r), Literal(299, 1000)),
                        FMul(FromInt(g), Literal(587, 1000))),
                   FMul(FromInt(b), Literal(114, 1000))),
              FromInt(255))
    ELSE FSqrt(FAdd(FAdd(FMul(FMul(Literal(299, 1000), FDiv(FromInt(r), FromInt(255))),
                              FDiv(FromInt(r), FromInt(255))),
                         FMul(FMul(Literal(587, 1000), FDiv(FromInt(g), FromInt(255))),
                              FDiv(FromInt(g), FromInt(255)))),
                    FMul(FMul(Literal(114, 1000), FDiv(FromInt(b), FromInt(255))),
                         FDiv(FromInt(b), FromInt(255)))))

\* The channel values the pixels of the model take, and the brightness of
\* every pixel made of them, computed once.
ChannelSamples == {0, 1, 85, 128, 170, 204, 254, 255}

BrightnessTable ==
    [r \in ChannelSamples, g \in ChannelSamples, b \in ChannelSamples,
     grayscale \in BOOLEAN |-> Brightness(r, g, b, grayscale)]

BrightnessOf(r, g, b, grayscale) ==
    IF {r, g, b} \subseteq ChannelSamples
    THEN BrightnessTable[r, g, b, grayscale]
    ELSE Brightness(r, g, b, grayscale)

\* a brightness that inversion would leave as it is
InvertedLeftAlone(brightness, inverted) == brightness

\* the brightness the index is computed from
Inverted(brightness, inverted) ==
    IF inverted THEN FSub(FromInt(1), brightness) ELSE brightness

\* an index that would be rounded to the nearest integer
CharIndexRounded(brightness, n) == FRoundInt(FMul(brightness, FromInt(n - 1)))

\* charIndex, for a ramp of n characters
CharIndex(brightness, n) == FFloor(FMul(brightness, FromInt(n - 1)))

\* chars[charIndex]
CharAt(chars, charIndex) ==
    IF charIndex \in 0..(Len(chars) - 1) THEN chars[charIndex + 1] ELSE Undefined

Max(a, b) == IF a >= b THEN a ELSE b
Min(a, b) == IF a <= b THEN a ELSE b

minBrightness == 40

\* a channel that would be capped at 255 but not raised to minBrightness
AdjustChannelUnraised(c, factor) ==
    Min(FRoundInt(FMul(FromInt(c), factor)), 255)

\* one channel of adjustColorBrightness
AdjustChannel(c, factor) ==
    Max(Min(FRoundInt(FMul(FromInt(c), factor)), 255), minBrightness)

\* the string `rgb(r, g, b)`, as the tuple of its parts
adjustColorBrightness(r, g, b, factor) ==
    <<"rgb", AdjustChannel(r, factor), AdjustChannel(g, factor), AdjustChannel(b, factor)>>

\* a factor that would leave the colour of the pixel as it is
BrightnessFactorOne(charIndex, n) == FromInt(1)

BrightnessFactor(charIndex, n) ==
    FAdd(FMul(FDiv(FromInt(charIndex), FromInt(n - 1)), Literal(15, 10)),
         Literal(5, 10))

White == <<"white">>

\* the cell of the pixel (r, g, b): its character, its colour, and the
\* index the character was taken at
PixelCell(r, g, b, charSet, inverted, grayscale) ==
    The({The({[char |-> CharAt(chars, charIndex),
               color |-> IF ~grayscale
                         THEN adjustColorBrightness(r, g, b,
                                  BrightnessFactor(charIndex, Len(chars)))
                         ELSE White,
               charIndex |-> charIndex]
              : charIndex \in {CharIndex(Inverted(BrightnessOf(r, g, b, grayscale),
                                                  inverted),
                                         Len(chars))}})
         : chars \in {charSets[charSet]}})

(***************************************************************************)
(* Images and the hidden processing canvas.  A pixel is <<r, g, b, a>>;    *)
(* the pixels of the model are opaque (a = 255) or fully transparent       *)
(* (a = 0), for which drawing and reading back involve no rounding.  A     *)
(* bitmap is the row-major sequence of its pixels, or Blank when every     *)
(* pixel is transparent black.                                             *)
(***************************************************************************)
Null == "null"

Wh == <<255, 255, 255, 255>>
Bk == <<0, 0, 0, 255>>
Gy == <<128, 128, 128, 255>>
Or == <<255, 85, 0, 255>>
Cy == <<1, 170, 254, 255>>
Tw == <<255, 255, 255, 0>>
Transparent == <<0, 0, 0, 0>>

Swatch == <<Wh, Bk, Or, Tw, Gy, Cy>>

\* a decoded image of w by h pixels; pixel (x, y) is Swatch[(a*x + b*y + c) % 6 + 1]
Pattern(w, h, a, b, c) ==
    [naturalWidth |-> w, naturalHeight |-> h, width |-> w, height |-> h,
     pixels |-> [i \in 1..(w * h) |->
                   Swatch[((a * ((i - 1) % w) + b * ((i - 1) \div w) + c) % 6) + 1]]]

\* what the sources of the model decode to: the default image, three
\* uploaded files, and the images the conversion alone is tried on
Images ==
    [globe  |-> Pattern(7, 10, 1, 2, 0),
     photo  |-> Pattern(10, 7, 5, 1, 3),
     dot    |-> Pattern(1, 1, 0, 0, 4),
     empty  |-> Pattern(0, 0, 0, 0, 0),
     wb     |-> Pattern(2, 2, 1, 0, 0),
     onePx  |-> Pattern(1, 1, 0, 0, 0),
     clearPx |-> Pattern(1, 1, 0, 0, 3),
     strip  |-> Pattern(4, 1, 1, 0, 1),
     column |-> Pattern(1, 5, 0, 1, 2),
     noCols |-> Pattern(0, 3, 0, 0, 0),
     noRows |-> Pattern(3, 0, 0, 0, 0)]

Blank == <<>>

\* the canvas element as it is created: 300 by 150, no context yet
NewCanvas == [attached |-> TRUE, context |-> FALSE,
              width |-> 300, height |-> 150, bitmap |-> Blank]

CanvasPixel(surface, x, y) ==
    IF surface.bitmap = Blank \/ x >= surface.width \/ y >= surface.height
    THEN Transparent
    ELSE surface.bitmap[y * surface.width + x + 1]

\* canvas.width = w; canvas.height = h: the bitmap is replaced by a blank one
SetSize(surface, w, h) == [surface EXCEPT !.width = w, !.height = h, !.bitmap = Blank]

\* ctx.clearRect(0, 0, canvas.width, canvas.height)
ClearRect(surface) == [surface EXCEPT !.bitmap = Blank]

\* source-over compositing of an opaque or fully transparent pixel
Over(src, dst) == IF src[4] = 255 THEN src ELSE dst

\* ctx.drawImage(img, 0, 0, w, h), w by h being the size of the image
DrawImage(surface, img, w, h) ==
    [surface EXCEPT !.bitmap =
        [i \in 1..(surface.width * surface.height) |->
            LET x == (i - 1) % surface.width
                y == (i - 1) \div surface.width
            IN  IF x < w /\ y < h
                THEN Over(img.pixels[y * w + x + 1], CanvasPixel(surface, x, y))
                ELSE CanvasPixel(surface, x, y)]]

\* ctx.getImageData(0, 0, w, h).data: four bytes a pixel, row by row
GetImageData(surface, w, h) ==
    [k \in 1..(4 * w * h) |->
        CanvasPixel(surface, ((k - 1) \div 4) % w, ((k - 1) \div 4) \div w)[((k - 1) % 4) + 1]]

\* the files the user uploads or drops: their MIME types; a file of an image
\* type decodes to the image of its name
Files == {"photo", "empty", "notes"}
FileType(file) == IF file = "notes" THEN "text/plain" ELSE "image/png"
StartsWithImage(type) == type \in {"image/png", "image/jpeg", "image/gif", "image/webp"}

DefaultSrc == "globe"

\* the values the controls set
Resolutions == {5, 15, 30}
ChosenCharSets == {"standard", "blocks"}
ChosenSettings ==
    {[resolution |-> resolution, charSet |-> charSet,
      inverted |-> inverted, grayscale |-> grayscale] :
        resolution \in Resolutions, charSet \in ChosenCharSets,
        inverted \in BOOLEAN, grayscale \in BOOLEAN}

(***************************************************************************)
(* convertToAscii                                                          *)
(***************************************************************************)
\* what `result += char` appends: the characters of the string char is
\* converted to
Appended(char) ==
    IF char = Undefined THEN <<"u", "n", "d", "e", "f", "i", "n", "e", "d">>
    ELSE <<char>>

\* characters as wide as they are tall
fontAspectSquare == FromInt(1)

fontAspect == Literal(5, 10)

\* the cells of the pixels of the model's images, computed once
CellTable ==
    [px \in {<<Swatch[i][1], Swatch[i][2], Swatch[i][3]>> : i \in 1..Len(Swatch)}
              \cup {<<0, 0, 0>>},
     charSet \in CharSetNames, inverted \in BOOLEAN, grayscale \in BOOLEAN |->
        PixelCell(px[1], px[2], px[3], charSet, inverted, grayscale)]

CellOf(r, g, b, config) ==
    IF <<<<r, g, b>>, config.charSet, config.inverted, config.grayscale>>
           \in DOMAIN CellTable
    THEN CellTable[<<r, g, b>>, config.charSet, config.inverted, config.grayscale]
    ELSE PixelCell(r, g, b, config.charSet, config.inverted, config.grayscale)

\* the inner loop: for (let x = ...; x < imgWidth; x += widthStep), from x on,
\* with the text and the row accumulated so far
RECURSIVE InnerLoop(_, _, _, _, _, _, _, _)
InnerLoop(data, imgWidth, config, widthStep, y, x, result, coloredRow) ==
    IF ~FLess(x, FromInt(imgWidth))
    THEN [result |-> result, coloredRow |-> coloredRow]
    ELSE The({The({The({InnerLoop(data, imgWidth, config, widthStep, y, next, text, cells)
                        : next \in {FAdd(x, widthStep)},
                          text \in {result \o Appended(cell.char)},
                          cells \in {Append(coloredRow,
                                            [char |-> cell.char, color |-> cell.color])}})
                   : cell \in {CellOf(data[pos + 1], data[pos + 2], data[pos + 3],
                                      config)}})
              : pos \in {FFloor(FMul(FAdd(FMul(y, FromInt(imgWidth)), x),
                                     FromInt(4)))}})

\* the outer loop without the line break after a row
RECURSIVE OuterLoopUnbroken(_, _, _, _, _, _, _, _, _)
OuterLoopUnbroken(data, imgWidth, imgHeight, config, widthStep, heightStep, y, result, coloredResult) ==
    IF ~FLess(y, FromInt(imgHeight))
    THEN [result |-> result, coloredResult |-> coloredResult]
    ELSE The({The({OuterLoopUnbroken(data, imgWidth, imgHeight, config, widthStep,
                                     heightStep, next, text, rows)
                   : next \in {FAdd(y, heightStep)},
                     text \in {row.result},
                     rows \in {Append(coloredResult, row.coloredRow)}})
              : row \in {InnerLoop(data, imgWidth, config, widthStep, y, FZero,
                                   result, <<>>)}})

\* the outer loop: for (let y = ...; y < imgHeight; y += heightStep), from y on
RECURSIVE OuterLoop(_, _, _, _, _, _, _, _, _)
OuterLoop(data, imgWidth, imgHeight, config, widthStep, heightStep, y, result, coloredResult) ==
    IF ~FLess(y, FromInt(imgHeight))
    THEN [result |-> result, coloredResult |-> coloredResult]
    ELSE The({The({OuterLoop(data, imgWidth, imgHeight, config, widthStep,
                             heightStep, next, text, rows)
                   : next \in {FAdd(y, heightStep)},
                     text \in {row.result \o <<"\n">>},
                     rows \in {Append(coloredResult, row.coloredRow)}})
              : row \in {InnerLoop(data, imgWidth, config, widthStep, y, FZero,
                                   result, <<>>)}})

\* settings.resolution, kept in the state as a count of hundredths
Resolution(config) == Literal(config.resolution, 100)

\* a pass that would give no output when a sample count is zero
SampleSkippingEmpty(data, imgWidth, imgHeight, config) ==
    The({IF FIsZero(width) \/ FIsZero(height)
         THEN [result |-> <<>>, coloredResult |-> <<>>]
         ELSE The({OuterLoop(data, imgWidth, imgHeight, config, widthStep,
                             heightStep, FZero, <<>>, <<>>)
                   : widthStep \in {MathCeil(FDiv(FromInt(imgWidth), width))},
                     heightStep \in {MathCeil(FDiv(FDiv(FromInt(imgHeight), height),
                                                   fontAspect))}})
         : width \in {MathFloor(FMul(FromInt(imgWidth), Resolution(config)))},
           height \in {MathFloor(FMul(FromInt(imgHeight), Resolution(config)))}})

\* the pass over the pixel data: the sample counts, the two steps, the walk
Sample(data, imgWidth, imgHeight, config) ==
    The({The({OuterLoop(data, imgWidth, imgHeight, config, widthStep, heightStep,
                        FZero, <<>>, <<>>)
              : widthStep \in {MathCeil(FDiv(FromInt(imgWidth), width))},
                heightStep \in {MathCeil(FDiv(FDiv(FromInt(imgHeight), height),
                                              fontAspect))}})
         : width \in {MathFloor(FMul(FromInt(imgWidth), Resolution(config)))},
           height \in {MathFloor(FMul(FromInt(imgHeight), Resolution(config)))}})

\* the sources of the component that decode to an image with pixels
ComponentSources ==
    {m \in {DefaultSrc} \cup Files :
        /\ StartsWithImage(FileType(m))
        /\ Images[m].naturalWidth * Images[m].naturalHeight > 0}

\* each of them as it is drawn on a blank canvas of its size
FreshlyDrawn ==
    [n \in ComponentSources |->
        DrawImage(SetSize([NewCanvas EXCEPT !.context = TRUE],
                          Images[n].naturalWidth, Images[n].naturalHeight),
                  Images[n], Images[n].naturalWidth, Images[n].naturalHeight)]

\* the passes over these drawings with the settings of the controls,
\* computed once
SampleTable ==
    [n \in ComponentSources, config \in ChosenSettings |->
        Sample(GetImageData(FreshlyDrawn[n], Images[n].naturalWidth,
                            Images[n].naturalHeight),
               Images[n].naturalWidth, Images[n].naturalHeight, config)]

\* the pass over the pixel data read from the canvas
SampleOf(drawn, imgWidth, imgHeight, config) ==
    IF \E n \in ComponentSources : drawn = FreshlyDrawn[n] /\ config \in ChosenSettings
    THEN SampleTable[CHOOSE n \in ComponentSources : drawn = FreshlyDrawn[n], config]
    ELSE Sample(GetImageData(drawn, imgWidth, imgHeight), imgWidth, imgHeight, config)

\* a canvas that would keep its pixels when it is resized and not be cleared
PreparedKept(surface, imgWidth, imgHeight) ==
    [surface EXCEPT
        !.width = imgWidth, !.height = imgHeight,
        !.bitmap = IF surface.bitmap = Blank THEN Blank
                   ELSE [i \in 1..(imgWidth * imgHeight) |->
                           CanvasPixel(surface, (i - 1) % imgWidth, (i - 1) \div imgWidth)]]

\* canvas.width = imgWidth; canvas.height = imgHeight; ctx.clearRect(0, 0, ...)
Prepared(surface, imgWidth, imgHeight) == ClearRect(SetSize(surface, imgWidth, imgHeight))

\* a catch block that would leave the error unset
FailedUnreported(message, surface) ==
    [error |-> Null, asciiArt |-> <<>>, coloredAsciiArt |-> <<>>, canvas |-> surface]

\* the catch block: the error is shown and the output emptied
Failed(message, surface) ==
    [error |-> message, asciiArt |-> <<>>, coloredAsciiArt |-> <<>>, canvas |-> surface]

\* the rest of convertToAscii() once the image is drawn: the pixel data is
\* read and walked.  readable: getImageData does not throw
ReadAndSample(drawn, imgWidth, imgHeight, config, readable) ==
    IF ~readable
    THEN Failed("Failed to get image data. This might be a CORS issue.", drawn)
    ELSE The({[error |-> Null, asciiArt |-> out.result,
               coloredAsciiArt |-> out.coloredResult, canvas |-> drawn]
              : out \in {SampleOf(drawn, imgWidth, imgHeight, config)}})

\* convertToAscii(): what it sets asciiArt, coloredAsciiArt and error to, and
\* the canvas it leaves.  contextGiven: getContext("2d") gives a context to a
\* canvas that has none yet
convertToAscii(surface, current, config, contextGiven, readable) ==
    IF ~surface.attached \/ current = Null
    THEN Failed("Canvas or image not available", surface)
    ELSE The({The({IF imgWidth = 0 \/ imgHeight = 0
                   THEN Failed("Invalid image dimensions", surface)
                   ELSE IF ~(surface.context \/ contextGiven)
                   THEN Failed("Could not get canvas context", surface)
                   ELSE ReadAndSample(
                            DrawImage(Prepared([surface EXCEPT !.context = TRUE],
                                               imgWidth, imgHeight),
                                      img, imgWidth, imgHeight),
                            imgWidth, imgHeight, config, readable)
                   : imgWidth \in {IF img.naturalWidth # 0 THEN img.naturalWidth
                                                          ELSE img.width},
                     imgHeight \in {IF img.naturalHeight # 0 THEN img.naturalHeight
                                                            ELSE img.height}})
              : img \in {Images[current]}})

(***************************************************************************)
(* The component AsciiConverter.                                           *)
(*                                                                         *)
(* The React state variables hold the value last set.  React renders after *)
(* the handler that set them has returned, in a task of its own, and runs  *)
(* the effects whose dependencies changed since the render before: that is *)
(* the action Render.  A callback of an image or of a file reader is a     *)
(* task of the browser too, and may run before the render that an earlier  *)
(* callback has scheduled.                                                 *)
(***************************************************************************)
VARIABLES
    settings,            \* useState: ConversionSettings
    imageLoaded,         \* useState
    loading,             \* useState
    error,               \* useState: a message, or Null
    asciiArt,            \* useState: the text, a sequence of characters
    coloredAsciiArt,     \* useState: the grid, rows of cells
    imageRef,            \* imageRef.current: the name of the image, or Null
    canvas,              \* the hidden canvas that canvasRef.current refers to
    mounted,             \* the first render and its effects are done
    settingsChanged,     \* setSettings was called since the last render
    renderedImageLoaded, \* imageLoaded as of the last render
    reads,               \* the FileReader reads in progress
    loads,               \* the Image loads in progress
    uploads,             \* the number of files handed to handleFileUpload
    changes,             \* the number of calls of updateSetting
    started,             \* the number of Image loads started
    last,                \* the step taken last
    probe                \* one pixel and settings, and the cell computed for them

vars == <<settings, imageLoaded, loading, error, asciiArt, coloredAsciiArt, imageRef,
          canvas, mounted, settingsChanged, renderedImageLoaded, reads, loads,
          uploads, changes, started, last, probe>>

\* the files handed to handleFileUpload in one run
MaxUploads == 1

\* the calls of updateSetting in one run
MaxChanges == 2

\* a step: the handler, the load it completed or started (or -1), and for a
\* conversion what the browser granted and whether the canvas had been drawn
\* on before
Step(op, id, contextGiven, readable) ==
    [op |-> op, id |-> id, contextGiven |-> contextGiven, readable |-> readable,
     reused |-> FALSE]

NoProbe == [done |-> FALSE, r |-> 0, g |-> 0, b |-> 0, charSet |-> "standard",
            inverted |-> FALSE, grayscale |-> TRUE,
            cell |-> [char |-> Undefined, color |-> White, charIndex |-> 0]]

\* the state of the component when it is constructed (the useState and
\* useRef initial values)
Constructed ==
    /\ settings = [resolution |-> 15, charSet |-> "standard",
                   inverted |-> FALSE, grayscale |-> TRUE]
    /\ imageLoaded = FALSE
    /\ loading = FALSE
    /\ error = Null
    /\ asciiArt = <<>>
    /\ coloredAsciiArt = <<>>
    /\ imageRef = Null
    /\ canvas = NewCanvas
    /\ mounted = FALSE
    /\ settingsChanged = FALSE
    /\ renderedImageLoaded = FALSE
    /\ reads = {}
    /\ loads = {}
    /\ uploads = 0
    /\ changes = 0
    /\ started = 0
    /\ last = Step("init", -1, FALSE, FALSE)

Init == Constructed /\ probe = NoProbe

\* loadDefaultImage() and loadImage(src): the flags are set and a new Image
\* starts loading
StartLoad(src, default) ==
    /\ loading' = TRUE
    /\ error' = Null
    /\ imageLoaded' = FALSE
    /\ loads' = loads \cup {[id |-> started, src |-> src, default |-> default]}
    /\ started' = started + 1

\* the first render: the mount effect calls loadDefaultImage(); the
\* conversion effect runs and finds no image loaded
Mount ==
    /\ ~mounted
    /\ mounted' = TRUE
    /\ StartLoad(DefaultSrc, TRUE)
    /\ settingsChanged' = FALSE
    /\ renderedImageLoaded' = imageLoaded
    /\ last' = Step("mount", started, FALSE, FALSE)
    /\ UNCHANGED <<settings, asciiArt, coloredAsciiArt, imageRef, canvas, reads,
                   uploads, changes, probe>>

\* a handleFileUpload that would not look at the type of the file
handleFileUploadUnfiltered(file) ==
    /\ mounted
    /\ uploads < MaxUploads
    /\ uploads' = uploads + 1
    /\ reads' = reads \cup {[n |-> uploads, file |-> file]}
    /\ error' = error
    /\ last' = Step("upload", -1, FALSE, FALSE)
    /\ UNCHANGED <<settings, imageLoaded, loading, asciiArt, coloredAsciiArt,
                   imageRef, canvas, mounted, settingsChanged, renderedImageLoaded,
                   loads, changes, started, probe>>

\* handleFileUpload(file), from handleFileInputChange or handleDrop
handleFileUpload(file) ==
    /\ mounted
    /\ uploads < MaxUploads
    /\ uploads' = uploads + 1
    /\ IF ~StartsWithImage(FileType(file))
       THEN /\ error' = "Please upload an image file"
            /\ reads' = reads
       ELSE /\ reads' = reads \cup {[n |-> uploads, file |-> file]}
            /\ error' = error
    /\ last' = Step("upload", -1, FALSE, FALSE)
    /\ UNCHANGED <<settings, imageLoaded, loading, asciiArt, coloredAsciiArt,
                   imageRef, canvas, mounted, settingsChanged, renderedImageLoaded,
                   loads, changes, started, probe>>

\* reader.onload: the data URL of the file is handed to loadImage
ReaderOnload(rd) ==
    /\ rd \in reads
    /\ reads' = reads \ {rd}
    /\ StartLoad(rd.file, FALSE)
    /\ last' = Step("loadImage", started, FALSE, FALSE)
    /\ UNCHANGED <<settings, asciiArt, coloredAsciiArt, imageRef, canvas, mounted,
                   settingsChanged, renderedImageLoaded, uploads, changes, probe>>

\* reader.onerror
ReaderOnerror(rd) ==
    /\ rd \in reads
    /\ reads' = reads \ {rd}
    /\ error' = "Failed to read file"
    /\ last' = Step("readerror", -1, FALSE, FALSE)
    /\ UNCHANGED <<settings, imageLoaded, loading, asciiArt, coloredAsciiArt,
                   imageRef, canvas, mounted, settingsChanged, renderedImageLoaded,
                   loads, uploads, changes, started, probe>>

\* an onload that would not look at the dimensions
ImgOnloadUnchecked(ld) ==
    /\ ld \in loads
    /\ loads' = loads \ {ld}
    /\ imageRef' = ld.src
    /\ imageLoaded' = TRUE
    /\ loading' = FALSE
    /\ last' = Step("onload", ld.id, FALSE, FALSE)
    /\ UNCHANGED <<settings, error, asciiArt, coloredAsciiArt, canvas, mounted,
                   settingsChanged, renderedImageLoaded, reads, uploads, changes,
                   started, probe>>

\* img.onload of loadDefaultImage and of loadImage
ImgOnload(ld) ==
    /\ ld \in loads
    /\ loads' = loads \ {ld}
    /\ IF Images[ld.src].naturalWidth = 0 \/ Images[ld.src].naturalHeight = 0
       THEN /\ error' = "Invalid image dimensions"
            /\ loading' = FALSE
            /\ UNCHANGED <<imageRef, imageLoaded>>
       ELSE /\ imageRef' = ld.src
            /\ imageLoaded' = TRUE
            /\ loading' = FALSE
            /\ error' = error
    /\ last' = Step("onload", ld.id, FALSE, FALSE)
    /\ UNCHANGED <<settings, asciiArt, coloredAsciiArt, canvas, mounted,
                   settingsChanged, renderedImageLoaded, reads, uploads, changes,
                   started, probe>>

\* img.onerror of loadDefaultImage and of loadImage
ImgOnerror(ld) ==
    /\ ld \in loads
    /\ loads' = loads \ {ld}
    /\ error' = IF ld.default THEN "Failed to load default image"
                ELSE "Failed to load image"
    /\ loading' = FALSE
    /\ last' = Step("onerror", ld.id, FALSE, FALSE)
    /\ UNCHANGED <<settings, imageLoaded, asciiArt, coloredAsciiArt, imageRef,
                   canvas, mounted, settingsChanged, renderedImageLoaded, reads,
                   uploads, changes, started, probe>>

\* updateSetting(key, value), from a control that reports a changed value
updateSetting(key, value) ==
    /\ mounted
    /\ settings[key] # value
    /\ changes < MaxChanges
    /\ changes' = changes + 1
    /\ settings' = [settings EXCEPT ![key] = value]
    /\ settingsChanged' = TRUE
    /\ last' = Step("updateSetting", -1, FALSE, FALSE)
    /\ UNCHANGED <<imageLoaded, loading, error, asciiArt, coloredAsciiArt, imageRef,
                   canvas, mounted, renderedImageLoaded, reads, loads, uploads,
                   started, probe>>

\* the dependencies [settings, imageLoaded] of the conversion effect differ
\* from those of the last render
EffectPending == settingsChanged \/ imageLoaded # renderedImageLoaded

\* a conversion effect that would depend on [imageLoaded] alone
RenderOnImageLoaded(contextGiven, readable) ==
    /\ mounted
    /\ EffectPending
    /\ settingsChanged' = FALSE
    /\ renderedImageLoaded' = imageLoaded
    /\ IF imageLoaded /\ imageRef # Null /\ imageLoaded # renderedImageLoaded
       THEN \E out \in {convertToAscii(canvas, imageRef, settings, contextGiven, readable)} :
                /\ asciiArt' = out.asciiArt
                /\ coloredAsciiArt' = out.coloredAsciiArt
                /\ error' = out.error
                /\ canvas' = out.canvas
                /\ last' = [Step("convert", -1, contextGiven, readable)
                               EXCEPT !.reused = canvas.bitmap # Blank]
       ELSE /\ UNCHANGED <<asciiArt, coloredAsciiArt, error, canvas>>
            /\ last' = Step("render", -1, FALSE, FALSE)
    /\ UNCHANGED <<settings, imageLoaded, loading, imageRef, mounted, reads, loads,
                   uploads, changes, started, probe>>

\* a render after which the conversion effect runs:
\*   if (imageLoaded && imageRef.current) convertToAscii()
Render(contextGiven, readable) ==
    /\ mounted
    /\ EffectPending
    /\ settingsChanged' = FALSE
    /\ renderedImageLoaded' = imageLoaded
    /\ IF imageLoaded /\ imageRef # Null
       THEN \E out \in {convertToAscii(canvas, imageRef, settings, contextGiven, readable)} :
                /\ asciiArt' = out.asciiArt
                /\ coloredAsciiArt' = out.coloredAsciiArt
                /\ error' = out.error
                /\ canvas' = out.canvas
                /\ last' = [Step("convert", -1, contextGiven, readable)
                               EXCEPT !.reused = canvas.bitmap # Blank]
       ELSE /\ UNCHANGED <<asciiArt, coloredAsciiArt, error, canvas>>
            /\ last' = Step("render", -1, FALSE, FALSE)
    /\ UNCHANGED <<settings, imageLoaded, loading, imageRef, mounted, reads, loads,
                   uploads, changes, started, probe>>

Next ==
    \/ Mount
    \/ \E file \in Files : handleFileUpload(file)
    \/ \E rd \in reads : ReaderOnload(rd)
    \/ \E rd \in reads : ReaderOnerror(rd)
    \/ \E ld \in loads : ImgOnload(ld)
    \/ \E ld \in loads : ImgOnerror(ld)
    \/ \E value \in Resolutions : updateSetting("resolution", value)
    \/ \E value \in ChosenCharSets : updateSetting("charSet", value)
    \/ \E value \in BOOLEAN : updateSetting("inverted", value)
    \/ \E value \in BOOLEAN : updateSetting("grayscale", value)
    \/ \E contextGiven, readable \in BOOLEAN : Render(contextGiven, readable)

Spec == Init /\ [][Next]_vars

(***************************************************************************)
(* The pixel mapping on its own: Init draws a pixel and the settings that  *)
(* the mapping reads, Probe computes the cell as the loop body does.       *)
(***************************************************************************)
InitPixel ==
    /\ Constructed
    /\ probe \in {[NoProbe EXCEPT !.r = r, !.g = g, !.b = b, !.charSet = charSet,
                                  !.inverted = inverted, !.grayscale = grayscale] :
                     r \in ChannelSamples, g \in ChannelSamples, b \in ChannelSamples,
                     charSet \in CharSetNames, inverted \in BOOLEAN,
                     grayscale \in BOOLEAN}

Probe ==
    /\ ~probe.done
    /\ probe' = [probe EXCEPT
                    !.done = TRUE,
                    !.cell = PixelCell(probe.r, probe.g, probe.b, probe.charSet,
                                       probe.inverted, probe.grayscale)]
    /\ UNCHANGED <<settings, imageLoaded, loading, error, asciiArt, coloredAsciiArt,
                   imageRef, canvas, mounted, settingsChanged, renderedImageLoaded,
                   reads, loads, uploads, changes, started, last>>

NextPixel == Probe

SpecPixel == InitPixel /\ [][NextPixel]_vars

(***************************************************************************)
(* The load callbacks and the conversion on their own: Init draws the      *)
(* image held, the settings, the canvas and a load in progress from sets   *)
(* wider than the component reaches by itself, the component being         *)
(* mounted with an earlier output on display.                              *)
(***************************************************************************)
CoreResolutions == {1, 5, 15, 30, 50, 99, 100}

CoreSettings ==
    {[resolution |-> resolution, charSet |-> charSet,
      inverted |-> inverted, grayscale |-> grayscale] :
        resolution \in CoreResolutions, charSet \in CharSetNames,
        inverted \in BOOLEAN, grayscale \in BOOLEAN}

CoreCanvases ==
    {NewCanvas, [NewCanvas EXCEPT !.attached = FALSE], FreshlyDrawn[DefaultSrc]}

\* an output of an earlier conversion
EarlierText == <<"#", "\n">>
EarlierGrid == <<<<[char |-> "#", color |-> White]>>>>

InitCore ==
    /\ mounted = TRUE
    /\ error = Null
    /\ asciiArt = EarlierText
    /\ coloredAsciiArt = EarlierGrid
    /\ reads = {}
    /\ uploads = MaxUploads
    /\ changes = MaxChanges
    /\ started = 1
    /\ last = Step("init", -1, FALSE, FALSE)
    /\ probe = NoProbe
    /\ \/ \* a conversion is due
          /\ imageRef \in DOMAIN Images
          /\ imageLoaded = TRUE
          /\ renderedImageLoaded = TRUE
          /\ settingsChanged = TRUE
          /\ settings \in CoreSettings
          /\ canvas \in CoreCanvases
          /\ loads = {}
          /\ loading = FALSE
       \/ \* a load is in progress
          /\ imageRef \in {Null, DefaultSrc}
          /\ imageLoaded = FALSE
          /\ renderedImageLoaded = FALSE
          /\ settingsChanged = FALSE
          /\ settings \in {s \in CoreSettings : s.resolution = 15 /\ ~s.inverted}
          /\ canvas = NewCanvas
          /\ loads \in {{[id |-> 0, src |-> src, default |-> default]} :
                           src \in DOMAIN Images, default \in BOOLEAN}
          /\ loading = TRUE

NextCore ==
    \/ \E ld \in loads : ImgOnload(ld)
    \/ \E ld \in loads : ImgOnerror(ld)
    \/ \E contextGiven, readable \in BOOLEAN : Render(contextGiven, readable)

SpecCore == InitCore /\ [][NextCore]_vars

(***************************************************************************)
(* Properties                                                              *)
(***************************************************************************)
\* the text a grid stands for: the characters of each row, then a line break
RECURSIVE TextOf(_)
TextOf(grid) ==
    IF grid = <<>> THEN <<>>
    ELSE [j \in 1..Len(Head(grid)) |-> Head(grid)[j].char] \o <<"\n">> \o TextOf(Tail(grid))

\* the lines of a text, each without the line break that ends it
RECURSIVE LinesFrom(_, _, _)
LinesFrom(text, i, line) ==
    IF i > Len(text) THEN (IF line = <<>> THEN <<>> ELSE <<line>>)
    ELSE IF text[i] = "\n" THEN <<line>> \o LinesFrom(text, i + 1, <<>>)
    ELSE LinesFrom(text, i + 1, Append(line, text[i]))

LinesOf(text) == LinesFrom(text, 1, <<>>)

ZeroDimensions(name) ==
    name # Null /\ (Images[name].naturalWidth = 0 \/ Images[name].naturalHeight = 0)

FailureMessages ==
    {"Canvas or image not available", "Invalid image dimensions",
     "Could not get canvas context",
     "Failed to get image data. This might be a CORS issue."}

\* C1: in every reachable state the stored text and the stored grid agree:
\* the text is the rows of the grid in order, each row's characters followed
\* by one line break; the j-th cell of the i-th row carries the j-th
\* character of the i-th line; and one is empty exactly when the other is.
C1_TextAndGridAgree ==
    /\ asciiArt = TextOf(coloredAsciiArt)
    /\ Len(LinesOf(asciiArt)) = Len(coloredAsciiArt)
    /\ \A i \in 1..Len(coloredAsciiArt) :
          /\ Len(LinesOf(asciiArt)[i]) = Len(coloredAsciiArt[i])
          /\ \A j \in 1..Len(coloredAsciiArt[i]) :
                coloredAsciiArt[i][j].char = LinesOf(asciiArt)[i][j]
    /\ (asciiArt = <<>>) <=> (coloredAsciiArt = <<>>)

\* a conversion has stored several rows of several cells
C1_Witness ==
    /\ last.op = "convert"
    /\ Len(coloredAsciiArt) >= 2
    /\ Len(coloredAsciiArt[1]) >= 2

\* C3: a load that completes with a zero width or height sets the error
\* "Invalid image dimensions" and leaves the current image and the loaded
\* flag as they were; a conversion run on an image of zero width or height,
\* the canvas being there, ends with the same error and empties the text
\* and the grid.
C3_ZeroDimensionsRejected ==
    [][/\ \A ld \in loads \ loads' :
             (last'.op = "onload" /\ ZeroDimensions(ld.src))
                 => /\ error' = "Invalid image dimensions"
                    /\ UNCHANGED <<imageRef, imageLoaded, asciiArt, coloredAsciiArt>>
       /\ (last'.op = "convert" /\ ZeroDimensions(imageRef) /\ canvas.attached)
             => /\ error' = "Invalid image dimensions"
                /\ asciiArt' = <<>>
                /\ coloredAsciiArt' = <<>>]_vars

\* the load of an image without pixels has completed while another image
\* was current
C3_Witness ==
    /\ last.op = "onload"
    /\ error = "Invalid image dimensions"
    /\ imageRef = DefaultSrc
    /\ ~imageLoaded

\* the conversion failed: the canvas or the image was missing, the image
\* had no pixels, no context was given or the pixels could not be read
ConversionFailed ==
    /\ last.op = "convert"
    /\ \/ ~canvas.attached
       \/ ZeroDimensions(imageRef)
       \/ ~canvas.context
       \/ ~last.readable

\* C4: after a conversion that failed the error is one of the four failure
\* messages, the text and the grid are empty, so that no cell of the failed
\* pass is stored, and the conversion is not due again.
C4_FailureIsTerminal ==
    ConversionFailed =>
        /\ error \in FailureMessages
        /\ asciiArt = <<>>
        /\ coloredAsciiArt = <<>>
        /\ ~EffectPending

\* the pixels were drawn but could not be read
C4_Witness ==
    /\ ConversionFailed
    /\ canvas.bitmap # Blank
    /\ error = "Failed to get image data. This might be a CORS issue."

\* C5: a conversion that succeeds stores what the conversion of the same
\* image with the same settings stores on a canvas never used before,
\* whatever was converted earlier.
C5_ResultDependsOnInputsOnly ==
    (last.op = "convert" /\ error = Null) =>
        \E fresh \in {convertToAscii(NewCanvas, imageRef, settings, TRUE, TRUE)} :
            /\ asciiArt = fresh.asciiArt
            /\ coloredAsciiArt = fresh.coloredAsciiArt

\* the uploaded image was converted on the canvas the default image had
\* been drawn on
C5_Witness ==
    /\ last.op = "convert"
    /\ last.reused
    /\ error = Null
    /\ imageRef = "photo"
    /\ Len(asciiArt) > 0

\* C2: for every built-in ramp, every pixel, both modes and both values of
\* the invert switch the index is within 0..N-1, N being the length of the
\* ramp; and when the switch is off the pixel (0, 0, 0) gets index 0 and
\* the pixel (255, 255, 255) gets index N-1.
C2_IndexInRangeEndsAtEnds ==
    probe.done =>
        LET n == Len(charSets[probe.charSet])
        IN  /\ probe.cell.charIndex \in 0..(n - 1)
            /\ (~probe.inverted /\ <<probe.r, probe.g, probe.b>> = <<0, 0, 0>>)
                  => probe.cell.charIndex = 0
            /\ (~probe.inverted /\ <<probe.r, probe.g, probe.b>> = <<255, 255, 255>>)
                  => probe.cell.charIndex = n - 1

\* C6: in colour mode each channel of the colour of a cell is an integer
\* from 40 to 255.
C6_ColourChannelsInRange ==
    (probe.done /\ ~probe.grayscale) =>
        /\ Len(probe.cell.color) = 4
        /\ probe.cell.color[1] = "rgb"
        /\ \A k \in 2..4 : probe.cell.color[k] \in 40..255

\* a channel was raised to the floor and another capped at the ceiling
C6_Witness ==
    /\ probe.done
    /\ ~probe.grayscale
    /\ probe.cell.color[4] = 40
    /\ probe.cell.color[2] = 255
    /\ probe.r < 255

\* the 2 by 2 image of a white and a black pixel in each row was converted
\* at resolution 1.0 with the standard ramp, in grayscale, not inverted
ScenarioWhiteBlack ==
    /\ last.op = "convert"
    /\ error = Null
    /\ imageRef = "wb"
    /\ settings = [resolution |-> 100, charSet |-> "standard",
                   inverted |-> FALSE, grayscale |-> TRUE]

\* C7 as it is stated: the scenario yields the text "@ \n@ \n", two rows.
C7_TwoRows ==
    ScenarioWhiteBlack =>
        /\ asciiArt = <<"@", " ", "\n", "@", " ", "\n">>
        /\ Len(coloredAsciiArt) = 2

\* C7: the scenario yields the text "@ \n": one row of two cells, "@" for
\* the white pixel and " " for the black one; the vertical step is
\* ceil(2 / 2 / 0.5) = 2, which passes over the second row of pixels.
C7_OneRow ==
    ScenarioWhiteBlack =>
        /\ asciiArt = <<"@", " ", "\n">>
        /\ Len(coloredAsciiArt) = 1
        /\ coloredAsciiArt[1] = <<[char |-> "@", color |-> White],
                                  [char |-> " ", color |-> White]>>

C7_Witness == ScenarioWhiteBlack /\ asciiArt # <<>>

\* an image of one pixel was converted and nothing the browser does failed
OnePixelConverted ==
    /\ last.op = "convert"
    /\ imageRef # Null
    /\ Images[imageRef].naturalWidth = 1
    /\ Images[imageRef].naturalHeight = 1
    /\ canvas.attached
    /\ canvas.context
    /\ last.readable

\* C8: the conversion of a 1 by 1 image stores one row of one cell, and the
\* text of one character and a line break, at every resolution.
C8_OnePixelOneCell ==
    OnePixelConverted =>
        /\ error = Null
        /\ Len(coloredAsciiArt) = 1
        /\ Len(coloredAsciiArt[1]) = 1
        /\ asciiArt = <<coloredAsciiArt[1][1].char, "\n">>

\* at a resolution for which both sample counts are zero
C8_Witness ==
    /\ OnePixelConverted
    /\ settings.resolution = 5
    /\ Len(coloredAsciiArt) = 1

\* C9: when a load completes after a later load was started, the current
\* image, the flags, the error and the output stay as they are.
C9_SupersededLoadDiscarded ==
    [][\A ld \in loads \ loads' :
          (last'.op \in {"onload", "onerror"} /\ ld.id < started - 1)
              => UNCHANGED <<imageRef, imageLoaded, loading, error,
                             asciiArt, coloredAsciiArt>>]_vars

\* C10: at most one image load is in progress.
C10_OneLoadInFlight == Cardinality(loads) <= 1

\* what the presenter shows is final: an image is loaded, no load is going
\* on, no error is shown and no effect is due
OutputShown ==
    /\ mounted
    /\ imageLoaded
    /\ ~loading
    /\ error = Null
    /\ ~EffectPending

\* C11: whenever the presenter shows output, the stored text and grid are
\* the conversion of the image that imageRef holds under the settings in
\* force; the output of an image held earlier is not shown once another
\* image is current.
C11_ShownOutputIsOfCurrentImage ==
    OutputShown =>
        \E fresh \in {convertToAscii(NewCanvas, imageRef, settings, TRUE, TRUE)} :
            /\ asciiArt = fresh.asciiArt
            /\ coloredAsciiArt = fresh.coloredAsciiArt

\* C12: a call of updateSetting leaves the output as it is and makes the
\* conversion effect due; the render that follows, an image being loaded,
\* runs one conversion, after which the text, the grid and the error are
\* those of the conversion of the current image with the new settings on a
\* canvas never used, nothing of the output before remaining; no image being
\* loaded, it runs no conversion and leaves the output as it is.
C12_SettingsChangeReconverts ==
    [][/\ (last'.op = "updateSetting")
             => /\ settingsChanged'
                /\ UNCHANGED <<asciiArt, coloredAsciiArt, error>>
       /\ (settingsChanged /\ last'.op \in {"convert", "render"})
             => IF imageLoaded /\ imageRef # Null
                THEN /\ last'.op = "convert"
                     /\ \E fresh \in {convertToAscii(NewCanvas, imageRef, settings,
                                                     canvas.context \/ last'.contextGiven,
                                                     last'.readable)} :
                            /\ asciiArt' = fresh.asciiArt
                            /\ coloredAsciiArt' = fresh.coloredAsciiArt
                            /\ error' = fresh.error
                ELSE /\ last'.op = "render"
                     /\ UNCHANGED <<asciiArt, coloredAsciiArt, error>>]_vars

\* the default image was converted when it had loaded and once more after
\* the one change of the settings
C12_Witness ==
    /\ last.op = "convert"
    /\ last.reused
    /\ started = 1
    /\ changes = 1
    /\ settings.resolution = 30
    /\ error = Null
    /\ Len(coloredAsciiArt[1]) >= 2

\* C13: a conversion that fails shows one of the failure messages and keeps
\* the text and the grid that the last successful conversion stored.
C13_FailureKeepsLastGoodOutput ==
    [][(last'.op = "convert" /\ error' # Null)
          => /\ error' \in FailureMessages
             /\ UNCHANGED <<asciiArt, coloredAsciiArt>>]_vars

\* C14: the brightness used with the invert switch on, inverted once more
\* (1 - brightness), selects the character that the same pixel gets with
\* the switch off, the ramp and the mode being the same.
C14_InvertingTwiceRestores ==
    (probe.done /\ probe.inverted) =>
        \E chars \in {charSets[probe.charSet]} :
            \E used \in {Inverted(BrightnessOf(probe.r, probe.g, probe.b,
                                               probe.grayscale), TRUE)} :
                CharAt(chars, CharIndex(Inverted(used, TRUE), Len(chars)))
                    = PixelCell(probe.r, probe.g, probe.b, probe.charSet, FALSE,
                                probe.grayscale).char


(***************************************************************************)
(* Inversion on images of white and black pixels                           *)
(***************************************************************************)
\* every pixel of the image is opaque white or opaque black
WhiteAndBlackOnly(img) ==
    /\ Len(img.pixels) > 0
    /\ \A i \in 1..Len(img.pixels) : img.pixels[i] \in {Wh, Bk}

\* an image of white and black pixels was converted with inverted = false
WhiteBlackConverted ==
    /\ last.op = "convert"
    /\ error = Null
    /\ imageRef # Null
    /\ WhiteAndBlackOnly(Images[imageRef])
    /\ ~settings.inverted

\* C15: for an image of pure white and pure black pixels, the conversion
\* with inverted = true has the grid shape of the conversion with
\* inverted = false, the first ramp character wherever that one has the last
\* ramp character, and the last ramp character wherever that one has the
\* first.
C15_InvertedSwapsExtremes ==
    WhiteBlackConverted =>
        \E chars \in {charSets[settings.charSet]} :
            \E swapped \in {convertToAscii(NewCanvas, imageRef,
                                           [settings EXCEPT !.inverted = TRUE],
                                           TRUE, TRUE)} :
                /\ swapped.error = Null
                /\ Len(swapped.coloredAsciiArt) = Len(coloredAsciiArt)
                /\ Len(swapped.asciiArt) = Len(asciiArt)
                /\ \A i \in 1..Len(coloredAsciiArt) :
                      /\ Len(swapped.coloredAsciiArt[i]) = Len(coloredAsciiArt[i])
                      /\ \A j \in 1..Len(coloredAsciiArt[i]) :
                            /\ (coloredAsciiArt[i][j].char = chars[Len(chars)])
                                  => swapped.coloredAsciiArt[i][j].char = chars[1]
                            /\ (coloredAsciiArt[i][j].char = chars[1])
                                  => swapped.coloredAsciiArt[i][j].char = chars[Len(chars)]
                /\ \A k \in 1..Len(asciiArt) :
                      /\ (asciiArt[k] = chars[Len(chars)]) => swapped.asciiArt[k] = chars[1]
                      /\ (asciiArt[k] = chars[1]) => swapped.asciiArt[k] = chars[Len(chars)]

\* a row holding the last ramp character and then the first was converted
C15_Witness ==
    /\ WhiteBlackConverted
    /\ settings.charSet = "standard"
    /\ Len(coloredAsciiArt) >= 1
    /\ Len(coloredAsciiArt[1]) = 2
    /\ coloredAsciiArt[1][1].char = "@"
    /\ coloredAsciiArt[1][2].char = " "


(***************************************************************************)
(* The stride walk, in integers                                            *)
(***************************************************************************)
CeilDiv(a, b) == (a + b - 1) \div b

\* the sample count of an axis of n pixels, at least 1
SampleCount(n, config) == Max(1, (n * config.resolution) \div 100)

\* ceil(W / sampleCols) and ceil(H / sampleRows / 0.5)
ColStride(img, config) == CeilDiv(img.naturalWidth, SampleCount(img.naturalWidth, config))
RowStride(img, config) ==
    CeilDiv(2 * img.naturalHeight, SampleCount(img.naturalHeight, config))

\* the pixel (x, y) of the image as it is read back from the cleared canvas
DrawnPixel(img, x, y) == Over(img.pixels[y * img.naturalWidth + x + 1], Transparent)

\* the cell of pixel (x, y)
WalkCell(img, config, x, y) ==
    The({[char |-> cell.char, color |-> cell.color]
         : cell \in {The({CellOf(px[1], px[2], px[3], config)
                          : px \in {DrawnPixel(img, x, y)}})}})

\* a conversion of an image with pixels succeeded
Converted ==
    /\ last.op = "convert"
    /\ error = Null
    /\ imageRef # Null
    /\ Images[imageRef].naturalWidth >= 1
    /\ Images[imageRef].naturalHeight >= 1

\* C16: a successful conversion of a W by H image yields ceil(H / rowStride)
\* rows of ceil(W / colStride) cells each, and cell (i, j) is the cell of
\* pixel (j * colStride, i * rowStride), where colStride = ceil(W / sampleCols)
\* and rowStride = ceil(H / sampleRows / 0.5).
C16_GridIsTheStrideWalk ==
    Converted =>
        \E img \in {Images[imageRef]} :
            \E colStride \in {ColStride(img, settings)},
               rowStride \in {RowStride(img, settings)} :
                /\ Len(coloredAsciiArt) = CeilDiv(img.naturalHeight, rowStride)
                /\ \A i \in 1..Len(coloredAsciiArt) :
                      /\ Len(coloredAsciiArt[i]) = CeilDiv(img.naturalWidth, colStride)
                      /\ \A j \in 1..Len(coloredAsciiArt[i]) :
                            coloredAsciiArt[i][j]
                                = WalkCell(img, settings, (j - 1) * colStride,
                                           (i - 1) * rowStride)

\* a grid of several rows of several cells, the strides above 1 and
\* dividing neither side of the image
C16_Witness ==
    /\ Converted
    /\ imageRef = "globe"
    /\ settings.resolution = 50
    /\ ColStride(Images[imageRef], settings) = 3
    /\ RowStride(Images[imageRef], settings) = 4
    /\ Len(coloredAsciiArt) = 3
    /\ Len(coloredAsciiArt[3]) = 3


\* the grid of the walk with sample counts and strides of at least 1
StrideWalk(img, config) ==
    The({[i \in 1..CeilDiv(img.naturalHeight, rowStride) |->
            [j \in 1..CeilDiv(img.naturalWidth, colStride) |->
                WalkCell(img, config, (j - 1) * colStride, (i - 1) * rowStride)]]
         : colStride \in {Max(1, ColStride(img, config))},
           rowStride \in {Max(1, RowStride(img, config))}})

\* a conversion of an image with pixels was run and nothing the browser
\* does failed
ConvertedUnhindered ==
    /\ last.op = "convert"
    /\ imageRef # Null
    /\ Images[imageRef].naturalWidth >= 1
    /\ Images[imageRef].naturalHeight >= 1
    /\ canvas.attached
    /\ canvas.context
    /\ last.readable

\* floor(W * resolution) or floor(H * resolution) is zero
ZeroSampleCount(img, config) ==
    \/ (img.naturalWidth * config.resolution) \div 100 = 0
    \/ (img.naturalHeight * config.resolution) \div 100 = 0

\* C17: for W >= 1, H >= 1 and a resolution in (0, 1], also when
\* floor(W * resolution) or floor(H * resolution) is zero, the conversion
\* ends without an error, and its grid and text are those of the walk with
\* sampleCols = max(1, floor(W * resolution)), sampleRows =
\* max(1, floor(H * resolution)) and both strides at least 1.
C17_WalkWithCountsAtLeastOne ==
    ConvertedUnhindered =>
        \E grid \in {StrideWalk(Images[imageRef], settings)} :
            /\ error = Null
            /\ coloredAsciiArt = grid
            /\ asciiArt = TextOf(grid)

\* the 1 by 5 image at resolution 0.99: floor(1 * 0.99) = 0 columns
C17_Witness ==
    /\ ConvertedUnhindered
    /\ imageRef = "column"
    /\ settings.resolution = 99
    /\ ZeroSampleCount(Images[imageRef], settings)
    /\ Len(coloredAsciiArt) = 2
    /\ Len(coloredAsciiArt[1]) = 1


(***************************************************************************)
(* The character of a visited pixel                                        *)
(***************************************************************************)
\* (0.299 r + 0.587 g + 0.114 b) / 255
Luma(r, g, b) ==
    FDiv(FAdd(FAdd(FMul(Literal(299, 1000), FromInt(r)),
                   FMul(Literal(587, 1000), FromInt(g))),
              FMul(Literal(114, 1000), FromInt(b))),
         FromInt(255))

\* c (v / 255)^2, the products taken from left to right
WeightedSquare(c, v) ==
    FMul(FMul(c, FDiv(FromInt(v), FromInt(255))), FDiv(FromInt(v), FromInt(255)))

\* sqrt(0.299 (r/255)^2 + 0.587 (g/255)^2 + 0.114 (b/255)^2)
Magnitude(r, g, b) ==
    FSqrt(FAdd(FAdd(WeightedSquare(Literal(299, 1000), r),
                    WeightedSquare(Literal(587, 1000), g)),
               WeightedSquare(Literal(114, 1000), b)))

\* ramp[floor(b' * (N - 1))]
RampCharacter(r, g, b, ramp, inverted, grayscale) ==
    The({The({ramp[FFloor(FMul(used, FromInt(Len(ramp) - 1))) + 1]
              : used \in {IF inverted THEN FSub(FromInt(1), brightness)
                          ELSE brightness}})
         : brightness \in {IF grayscale THEN Luma(r, g, b) ELSE Magnitude(r, g, b)}})

\* the colour channels the canvas gives back for the images of the model
DrawnColours ==
    {<<Over(Swatch[i], Transparent)[1], Over(Swatch[i], Transparent)[2],
       Over(Swatch[i], Transparent)[3]>> : i \in 1..Len(Swatch)}

\* the characters of these colours, computed once
RampCharacterTable ==
    [px \in DrawnColours, charSet \in CharSetNames,
     inverted \in BOOLEAN, grayscale \in BOOLEAN |->
        RampCharacter(px[1], px[2], px[3], charSets[charSet], inverted, grayscale)]

\* C18: the character of every visited pixel (r, g, b) is
\* ramp[floor(b' * (N - 1))], where the brightness is
\* (0.299 r + 0.587 g + 0.114 b) / 255 in grayscale mode and
\* sqrt(0.299 (r/255)^2 + 0.587 (g/255)^2 + 0.114 (b/255)^2) in colour mode,
\* and b' is 1 - brightness when inverted is set and the brightness
\* otherwise; the alpha of the pixel is not used.
C18_CharacterFromBrightness ==
    Converted =>
        \E img \in {Images[imageRef]} :
            \E colStride \in {ColStride(img, settings)},
               rowStride \in {RowStride(img, settings)} :
                \A i \in 1..Len(coloredAsciiArt) :
                    \A j \in 1..Len(coloredAsciiArt[i]) :
                        \E px \in {DrawnPixel(img, (j - 1) * colStride,
                                              (i - 1) * rowStride)} :
                            coloredAsciiArt[i][j].char
                                = RampCharacterTable[<<px[1], px[2], px[3]>>,
                                                     settings.charSet,
                                                     settings.inverted,
                                                     settings.grayscale]

\* a row with a transparent and an opaque pixel of the same colour channels,
\* and pixels of other colours
C18_Witness ==
    /\ Converted
    /\ imageRef = "photo"
    /\ settings.resolution = 100
    /\ settings.inverted
    /\ ~settings.grayscale
    /\ DrawnPixel(Images[imageRef], 0, 0) = <<0, 0, 0, 0>>
    /\ DrawnPixel(Images[imageRef], 2, 0) = <<0, 0, 0, 255>>
    /\ Len(coloredAsciiArt[1]) = 10
    /\ coloredAsciiArt[1][1].char = coloredAsciiArt[1][3].char
    /\ coloredAsciiArt[1][2].char # coloredAsciiArt[1][1].char


(***************************************************************************)
(* The colour of a cell                                                    *)
(***************************************************************************)
\* (charIndex / (N - 1)) * 1.5 + 0.5
ColourFactor(charIndex, n) ==
    FAdd(FMul(FDiv(FromInt(charIndex), FromInt(n - 1)), Literal(15, 10)),
         Literal(5, 10))

\* min(max(round(c * factor), 40), 255)
ColourChannel(c, factor) == Min(Max(FRoundInt(FMul(FromInt(c), factor)), 40), 255)

\* the index selected for the probed pixel, after inversion
SelectedIndex ==
    FFloor(FMul(Inverted(BrightnessOf(probe.r, probe.g, probe.b, probe.grayscale),
                         probe.inverted),
                FromInt(Len(charSets[probe.charSet]) - 1)))

\* C19: in grayscale mode the colour of a cell is white; in colour mode it
\* is rgb of min(max(round(c * brightnessFactor), 40), 255) for each channel
\* c of the pixel, where brightnessFactor = (charIndex / (N - 1)) * 1.5 + 0.5
\* lies in [0.5, 2.0] and charIndex is the index selected after inversion.
C19_ColourOfCell ==
    probe.done =>
        IF probe.grayscale
        THEN probe.cell.color = White
        ELSE \E factor \in {ColourFactor(SelectedIndex, Len(charSets[probe.charSet]))} :
                /\ Len(charSets[probe.charSet]) >= 2
                /\ ~FLess(factor, Literal(5, 10))
                /\ ~FLess(FromInt(2), factor)
                /\ probe.cell.color = <<"rgb", ColourChannel(probe.r, factor),
                                        ColourChannel(probe.g, factor),
                                        ColourChannel(probe.b, factor)>>

\* a pixel in colour mode, inverted, with a channel darkened and a channel
\* raised to 40
C19_Witness ==
    /\ probe.done
    /\ ~probe.grayscale
    /\ probe.inverted
    /\ probe.cell.charIndex > 0
    /\ probe.cell.color[2] \in 41..(probe.r - 1)
    /\ probe.cell.color[3] = 40
    /\ probe.g > 0


(***************************************************************************)
(* The loading flag                                                        *)
(***************************************************************************)
\* C20: loading is true exactly when an image load that was started has
\* fired neither onload nor onerror yet.
C20_LoadingReflectsPendingLoads == loading <=> (loads # {})


(***************************************************************************)
(* The component with its scheduling: the first render happens, a file     *)
(* read ends, every image load that was started fires onload or onerror,   *)
(* and React renders when state that a render depends on was set.          *)
(***************************************************************************)
Fairness ==
    /\ WF_vars(Mount)
    /\ WF_vars(\E rd \in reads : ReaderOnload(rd) \/ ReaderOnerror(rd))
    /\ \A id \in 0..MaxUploads :
          WF_vars(\E ld \in loads : ld.id = id /\ (ImgOnload(ld) \/ ImgOnerror(ld)))
    /\ WF_vars(\E contextGiven, readable \in BOOLEAN : Render(contextGiven, readable))

SpecFair == Spec /\ Fairness

\* loadDefaultImage() or loadImage(src) has just run
LoadStarted == last.op \in {"mount", "loadImage"}

\* no load is shown as going on, and an error is set or an image is loaded
\* and the output is the conversion of the current image with the current
\* settings
LoadResolved ==
    /\ ~loading
    /\ \/ error # Null
       \/ /\ imageLoaded
          /\ imageRef # Null
          /\ \E fresh \in {convertToAscii(NewCanvas, imageRef, settings, TRUE, TRUE)} :
                /\ asciiArt = fresh.asciiArt
                /\ coloredAsciiArt = fresh.coloredAsciiArt

\* C21: every start of a load is eventually followed by a state with
\* loading = false in which an error is set, or an image is loaded and the
\* stored output is the conversion of the current image under the current
\* settings.
C21_EveryLoadResolves == LoadStarted ~> LoadResolved


(***************************************************************************)
(* Files that are not images                                               *)
(***************************************************************************)
\* C22: handing handleFileUpload a file whose type is not an image type
\* sets the error to "Please upload an image file", starts no read and no
\* load, and leaves the current image, the settings, the loaded and loading
\* flags, the text and the grid as they are.
C22_NonImageFileRejected ==
    [][\A file \in Files :
          (~StartsWithImage(FileType(file)) /\ handleFileUpload(file))
              => /\ error' = "Please upload an image file"
                 /\ UNCHANGED <<reads, loads, started>>
                 /\ UNCHANGED <<imageRef, settings, imageLoaded, loading,
                                asciiArt, coloredAsciiArt>>]_vars

\* a file that is not an image was rejected while an output was stored
C22_Witness ==
    /\ last.op = "upload"
    /\ error = "Please upload an image file"
    /\ reads = {}
    /\ loads = {}
    /\ imageLoaded
    /\ imageRef = DefaultSrc
    /\ Len(asciiArt) > 0


(***************************************************************************)
(* What of an image the output depends on                                  *)
(***************************************************************************)
\* two images of the same size with the same red, green and blue at every
\* pixel the walk visits
AgreeWhereVisited(a, b, config) ==
    /\ a.naturalWidth = b.naturalWidth
    /\ a.naturalHeight = b.naturalHeight
    /\ \E colStride \in {ColStride(a, config)}, rowStride \in {RowStride(a, config)} :
          \A i \in 0..(CeilDiv(a.naturalHeight, rowStride) - 1) :
              \A j \in 0..(CeilDiv(a.naturalWidth, colStride) - 1) :
                  \E k \in {i * rowStride * a.naturalWidth + j * colStride + 1} :
                      <<a.pixels[k][1], a.pixels[k][2], a.pixels[k][3]>>
                          = <<b.pixels[k][1], b.pixels[k][2], b.pixels[k][3]>>

\* C23: an image of the same size as the one converted, with the same red,
\* green and blue at every pixel the walk visits, gives the same text and
\* grid under the same settings, whatever its alpha channel and its other
\* pixels are.
C23_OnlyVisitedChannelsMatter ==
    Converted =>
        \A other \in DOMAIN Images :
            AgreeWhereVisited(Images[imageRef], Images[other], settings)
                => \E fresh \in {convertToAscii(NewCanvas, other, settings, TRUE, TRUE)} :
                       /\ fresh.asciiArt = asciiArt
                       /\ fresh.coloredAsciiArt = coloredAsciiArt


(***************************************************************************)
(* The index with and without inversion                                    *)
(***************************************************************************)
\* x = y, for numbers
FEqual(x, y) == ~FLess(x, y) /\ ~FLess(y, x)

\* C24: with i the index selected with inverted = false and N the length of
\* the ramp, the index selected with inverted = true is N-1-i when
\* brightness * (N-1) is an integer and N-2-i otherwise.
C24_InversionMirrorsIndex ==
    probe.done =>
        \E n \in {Len(charSets[probe.charSet])} :
            \E scaled \in {FMul(BrightnessOf(probe.r, probe.g, probe.b, probe.grayscale),
                                FromInt(n - 1))},
               i \in {PixelCell(probe.r, probe.g, probe.b, probe.charSet, FALSE,
                                probe.grayscale).charIndex},
               k \in {PixelCell(probe.r, probe.g, probe.b, probe.charSet, TRUE,
                                probe.grayscale).charIndex} :
                /\ k = IF FEqual(scaled, FromInt(FFloor(scaled)))
                       THEN n - 1 - i
                       ELSE n - 2 - i
                /\ k <= n - 1 - i
                /\ k >= n - 2 - i


(***************************************************************************)
(* The two brightness modes                                                *)
(***************************************************************************)
\* C25: with inverted = false the index selected in colour mode is at least
\* the index selected in grayscale mode, and the two modes select the same
\* character when r = g = b.
C25_ColourIndexAtLeastGrayscale ==
    (probe.done /\ ~probe.inverted) =>
        \E colour \in {PixelCell(probe.r, probe.g, probe.b, probe.charSet, FALSE, FALSE)},
           gray \in {PixelCell(probe.r, probe.g, probe.b, probe.charSet, FALSE, TRUE)} :
            /\ colour.charIndex >= gray.charIndex
            /\ (probe.r = probe.g /\ probe.g = probe.b) => colour.char = gray.char

=============================================================================
